---------------------------- MODULE Spec2Model ----------------------------
(***************************************************************************)
(* A model of generate_evidence_doc.py: the naming transformer, the        *)
(* natural sort, the image layout computation, the renaming utility with   *)
(* its worker pools, the filesystem walker and the document assembler.     *)
(*                                                                         *)
(* A string of the program is a sequence of one-character strings, so that *)
(* the regular expressions, the suffix test and the sort key are computed. *)
(***************************************************************************)
EXTENDS Integers, Sequences, FiniteSets, TLC

VARIABLES
    \* convert_folder_name(folder_name, level) -> display_name
    folder_name, level, display_name,
    \* the layout computation of one image
    img_width, img_height, layout,
    \* generate_doc: the filesystem, the main thread and the worker pools
    fs, pc, answer, frames, queue, running, submitted, overwritten,
    structure, blocks, status, result, save_ok

namingVars == <<folder_name, level, display_name>>
layoutVars == <<img_width, img_height, layout>>
genVars == <<fs, pc, answer, frames, queue, running, submitted, overwritten,
             structure, blocks, status, result, save_ok>>
vars == <<namingVars, layoutVars, genVars>>

(***************************************************************************)
(* Characters and strings                                                  *)
(***************************************************************************)
DigitChars == <<"0", "1", "2", "3", "4", "5", "6", "7", "8", "9">>
UpperChars == <<"A", "B", "C", "D", "E", "F", "G", "H", "I", "J", "K", "L", "M",
                "N", "O", "P", "Q", "R", "S", "T", "U", "V", "W", "X", "Y", "Z">>
LowerChars == <<"a", "b", "c", "d", "e", "f", "g", "h", "i", "j", "k", "l", "m",
                "n", "o", "p", "q", "r", "s", "t", "u", "v", "w", "x", "y", "z">>
\* The characters of the model in code point order.
CodePoints == <<"\n", " ", ".">> \o DigitChars \o UpperChars \o LowerChars

Range(s) == {s[i] : i \in 1..Len(s)}
IndexIn(s, c) == CHOOSE i \in 1..Len(s) : s[i] = c

\* ord(c), up to the order it induces
Ord(c) == IndexIn(CodePoints, c)
\* str.isdigit() of one character
IsDigit(c) == c \in Range(DigitChars)
\* int(c) of one digit character
DigitVal(c) == IndexIn(DigitChars, c) - 1
\* str.isspace() of one character
IsSpace(c) == c \in {" ", "\n"}
\* str.lower() of one character
LowerChar(c) == IF c \in Range(UpperChars) THEN LowerChars[IndexIn(UpperChars, c)] ELSE c
\* str.lower()
Lower(s) == [i \in 1..Len(s) |-> LowerChar(s[i])]

Drop(s, n) == SubSeq(s, n + 1, Len(s))
Take(s, n) == SubSeq(s, 1, n)

\* The length of the longest prefix of s made of digits / of no digit.
RECURSIVE DigitRun(_)
DigitRun(s) == IF s # <<>> /\ IsDigit(Head(s)) THEN 1 + DigitRun(Tail(s)) ELSE 0
RECURSIVE TextRun(_)
TextRun(s) == IF s # <<>> /\ ~IsDigit(Head(s)) THEN 1 + TextRun(Tail(s)) ELSE 0

\* int(s) of a string of digits
RECURSIVE ToInt(_)
ToInt(s) == IF s = <<>> THEN 0 ELSE 10 * ToInt(Take(s, Len(s) - 1)) + DigitVal(s[Len(s)])

\* str(n), n >= 0
RECURSIVE ToStr(_)
ToStr(n) == IF n < 10 THEN <<DigitChars[n + 1]>>
            ELSE ToStr(n \div 10) \o <<DigitChars[(n % 10) + 1]>>

\* str.strip()
RECURSIVE LStrip(_)
LStrip(s) == IF s # <<>> /\ IsSpace(Head(s)) THEN LStrip(Tail(s)) ELSE s
RECURSIVE RStrip(_)
RStrip(s) == IF s # <<>> /\ IsSpace(s[Len(s)]) THEN RStrip(Take(s, Len(s) - 1)) ELSE s
Strip(s) == RStrip(LStrip(s))

(***************************************************************************)
(* natural_sort_key                                                        *)
(***************************************************************************)
\* re.split(r'(\d+)', s) with int() of the digit runs and lower() of the
\* rest: text at the odd places, numbers at the even ones.
RECURSIVE natural_sort_key(_)
natural_sort_key(s) ==
    LET t == TextRun(s)
        r == Drop(s, t)
        d == DigitRun(r)
    IN  IF r = <<>> THEN <<Lower(Take(s, t))>>
        ELSE <<Lower(Take(s, t)), ToInt(Take(r, d))>> \o natural_sort_key(Drop(r, d))

\* a < b for two strings, as Python compares them
RECURSIVE StrLess(_, _)
StrLess(a, b) ==
    IF b = <<>> THEN FALSE
    ELSE IF a = <<>> THEN TRUE
    ELSE IF Head(a) # Head(b) THEN Ord(Head(a)) < Ord(Head(b))
    ELSE StrLess(Tail(a), Tail(b))

\* a < b for two keys, as Python compares lists; i is the place of the heads
RECURSIVE KeyLessFrom(_, _, _)
KeyLessFrom(a, b, i) ==
    IF b = <<>> THEN FALSE
    ELSE IF a = <<>> THEN TRUE
    ELSE IF Head(a) # Head(b)
         THEN IF i % 2 = 1 THEN StrLess(Head(a), Head(b)) ELSE Head(a) < Head(b)
    ELSE KeyLessFrom(Tail(a), Tail(b), i + 1)
KeyLess(a, b) == KeyLessFrom(a, b, 1)

\* a's name sorts before b's
NameLess(a, b) == KeyLess(natural_sort_key(a), natural_sort_key(b))

(***************************************************************************)
(* to_chinese_num and convert_folder_name                                  *)
(***************************************************************************)
\* Each numeral, and the separator U+3001, is one character, written as its code point.
chinese_nums == <<"U+96F6", "U+4E00", "U+4E8C", "U+4E09", "U+56DB", "U+4E94", "U+516D", "U+4E03", "U+516B", "U+4E5D", "U+5341">>

to_chinese_num(num) ==
    IF num <= 10 THEN <<chinese_nums[num + 1], "U+3001">>
    ELSE IF num < 20 THEN <<"U+5341", chinese_nums[num - 10 + 1], "U+3001">>
    ELSE ToStr(num) \o <<"U+3001">>

\* The length of the longest prefix of s without a line break: what (.*) takes.
RECURSIVE DotStarRun(_)
DotStarRun(s) == IF s # <<>> /\ Head(s) # "\n" THEN 1 + DotStarRun(Tail(s)) ELSE 0

\* re.match(r'(\d+)\.(.*)', folder_name): the groups, or matched = FALSE
ReMatch(name) ==
    LET d == DigitRun(name)
        after == Drop(name, d + 1)
    IN  IF d >= 1 /\ Len(name) > d /\ name[d + 1] = "."
        THEN [matched |-> TRUE, g1 |-> Take(name, d),
              g2 |-> Take(after, DotStarRun(after))]
        ELSE [matched |-> FALSE, g1 |-> <<>>, g2 |-> <<>>]

convert_folder_name(name, lvl) ==
    LET match == ReMatch(name)
    IN  IF match.matched
        THEN LET num == ToInt(match.g1)
                 rest == Strip(match.g2)
             IN  IF lvl = 1 THEN to_chinese_num(num) \o rest ELSE name
        ELSE name

(***************************************************************************)
(* The layout computation of create_document.  The program computes in     *)
(* floating point; the model computes the same expressions in exact        *)
(* rationals [n, d] in lowest terms.                                       *)
(***************************************************************************)
RECURSIVE Gcd(_, _)
Gcd(a, b) == IF b = 0 THEN a ELSE Gcd(b, a % b)
Rat(n, d) == LET g == Gcd(n, d) IN [n |-> n \div g, d |-> d \div g]
RMul(a, b) ==
    LET g1 == Gcd(a.n, b.d)
        g2 == Gcd(b.n, a.d)
    IN  [n |-> (a.n \div g1) * (b.n \div g2), d |-> (a.d \div g2) * (b.d \div g1)]
RDiv(a, b) == RMul(a, [n |-> b.d, d |-> b.n])
RAdd(a, b) ==
    LET g == Gcd(a.d, b.d)
    IN  Rat(a.n * (b.d \div g) + b.n * (a.d \div g), (a.d \div g) * b.d)
RSub(a, b) ==
    LET g == Gcd(a.d, b.d)
    IN  Rat(a.n * (b.d \div g) - b.n * (a.d \div g), (a.d \div g) * b.d)
RLess(a, b) ==
    LET g == Gcd(a.d, b.d)
    IN  a.n * (b.d \div g) < b.n * (a.d \div g)
RLeq(a, b) == ~RLess(b, a)

page_width == Rat(21, 1)
page_height == Rat(297, 10)
margin == Rat(127, 100)
available_width == RSub(page_width, RMul(Rat(2, 1), margin))
available_width_in == RDiv(available_width, Rat(254, 100))
available_height == RSub(page_height, RMul(Rat(2, 1), margin))
available_height_in == RDiv(available_height, Rat(254, 100))
title_height_in == RMul(RDiv(Rat(105, 10), Rat(72, 1)), Rat(15, 10))
scale_factor == Rat(9, 10)

\* A computation that always re-fits to the height.
ExceedsPageAlways(total_height) == TRUE

\* total_height > available_height_in
ExceedsPage(total_height) == RLess(available_height_in, total_height)

\* A height-first fit that forgets the title allowance.
HeightFirstHeightNoTitle == available_height_in

\* image_height of the height-first fit
HeightFirstHeight == RSub(available_height_in, title_height_in)

\* Lines 205-216 for one image of width w and height h pixels, h > 0: the fit
\* taken, the dimensions before the scaling and the dimensions handed to
\* add_picture.
ImageLayout(w, h) ==
    LET aspect_ratio == Rat(w, h)
        width1 == available_width_in
        height1 == RDiv(width1, aspect_ratio)
        total_height == RAdd(height1, title_height_in)
        height2 == HeightFirstHeight
        width2 == RMul(height2, aspect_ratio)
        fit == IF ~ExceedsPage(total_height) THEN "width"
               ELSE IF ~RLess(available_width_in, width2) THEN "height"
               ELSE "shrink"
        fit_width == IF fit = "height" THEN width2 ELSE available_width_in
        fit_height == IF fit = "height" THEN height2
                      ELSE RDiv(available_width_in, aspect_ratio)
    IN  [fit |-> fit, aspect_ratio |-> aspect_ratio,
         fit_width |-> fit_width, fit_height |-> fit_height,
         image_width |-> RMul(fit_width, scale_factor),
         image_height |-> RMul(fit_height, scale_factor)]

(***************************************************************************)
(* The filesystem: a set of entries [path, kind, content, id].  A path is  *)
(* the sequence of names below the selected folder, which is <<>>.  kind   *)
(* is "dir" or "file"; content says what PIL and python-docx make of a     *)
(* file ("image": readable; "unreadable": Image.open raises; "broken":     *)
(* the size is read and the insertion raises; "other": not an image); id   *)
(* is the path the entry had when generate_doc started.                    *)
(***************************************************************************)
SUPPORTED_EXTENSIONS == {<<".", "p", "n", "g">>, <<".", "j", "p", "g">>,
                         <<".", "j", "p", "e", "g">>}

Name(path) == path[Len(path)]
Parent(path) == Take(path, Len(path) - 1)

\* PurePath.suffix of a name: from the last dot, unless the dot is the first
\* or the last character
Suffix(name) ==
    LET dots == {i \in 1..Len(name) : name[i] = "."}
    IN  IF dots = {} THEN <<>>
        ELSE LET i == CHOOSE j \in dots : \A k \in dots : k <= j
             IN  IF i > 1 /\ i < Len(name) THEN Drop(name, i - 1) ELSE <<>>

\* f.suffix.lower() in SUPPORTED_EXTENSIONS
HasImageSuffix(path) == Lower(Suffix(Name(path))) \in SUPPORTED_EXTENSIONS

\* Path(p).iterdir(): the entries of directory p
iterdir(fsys, p) == {e \in fsys : Len(e.path) = Len(p) + 1 /\ Parent(e.path) = p}

Exists(fsys, p) == \E e \in fsys : e.path = p
IsDir(fsys, p) == \E e \in fsys : e.path = p /\ e.kind = "dir"
IsFile(fsys, p) == \E e \in fsys : e.path = p /\ e.kind = "file"
EntryAt(fsys, p) == CHOOSE e \in fsys : e.path = p

\* sorted(paths, key=lambda x: natural_sort_key(x.name)) of a set of paths
\* A sort by the names as they are, without the key.
SortedPathsPlain(S) ==
    LET ranked == {<<Cardinality({q \in S : StrLess(Name(q), Name(p))}), p>> : p \in S}
    IN  [i \in 1..Cardinality(S) |-> (CHOOSE r \in ranked : r[1] = i - 1)[2]]

\* The stable sort leaves paths of equal keys in the order of the listing,
\* which is arbitrary: here they are in the order of their names.  keyed
\* pairs each path with its key and ranked with the number of paths before it.
SortedPaths(S) ==
    LET keyed == {<<natural_sort_key(Name(x)), x>> : x \in S}
        Before(q, p) == \/ KeyLess(q[1], p[1])
                        \/ q[1] = p[1] /\ StrLess(Name(q[2]), Name(p[2]))
        ranked == {<<Cardinality({q \in keyed : Before(q, p)}), p[2]>> : p \in keyed}
    IN  [i \in 1..Cardinality(S) |-> (CHOOSE r \in ranked : r[1] = i - 1)[2]]

IsUnder(path, dir) == Len(path) > Len(dir) /\ Take(path, Len(dir)) = dir

\* os.rename(src, dst) on POSIX.  A missing source raises; a file renamed
\* onto an existing file replaces it; the other collisions raise.  The
\* result is the new filesystem and the entry that was replaced, if any.
Rename(fsys, src, dst) ==
    IF ~Exists(fsys, src) THEN [fs |-> fsys, lost |-> {}]
    ELSE LET s == EntryAt(fsys, src)
             moved == {IF e.path = src \/ IsUnder(e.path, src)
                       THEN [e EXCEPT !.path = dst \o Drop(e.path, Len(src))]
                       ELSE e : e \in fsys}
         IN  IF ~Exists(fsys, dst) THEN [fs |-> moved, lost |-> {}]
             ELSE LET d == EntryAt(fsys, dst)
                  IN  IF s.kind = "file" /\ d.kind = "file"
                      THEN [fs |-> {e \in moved : e # d}, lost |-> {d}]
                      ELSE [fs |-> fsys, lost |-> {}]

(***************************************************************************)
(* rename_images: the main thread and the worker pools                     *)
(*                                                                         *)
(* frames is the stack of rename_images calls, the innermost last.  A      *)
(* frame is [folder, todo, images, i]: todo holds the items of iterdir     *)
(* still to visit (the listing is taken when the loop starts and its order *)
(* is arbitrary), images is the sorted list of line 80 and i the place of  *)
(* the inner loop in it, 0 outside the inner loop.  queue[f] and           *)
(* running[f] are the work queue and the tasks taken by a worker thread of *)
(* the executor of the call on folder f; submitted[f] counts its submits.  *)
(***************************************************************************)
MaxWorkers == 2

NewFrame(fsys, folder) ==
    [folder |-> folder, todo |-> {e.path : e \in iterdir(fsys, folder)},
     images |-> <<>>, i |-> 0]

Top == frames[Len(frames)]
SetTop(f) == [frames EXCEPT ![Len(frames)] = f]

\* line 79-80: the images of the folder, sorted
ListImages(fsys, folder) ==
    SortedPaths({e.path : e \in {x \in iterdir(fsys, folder) : HasImageSuffix(x.path)}})

\* line 82
NewName(folder, i, image) == folder \o <<ToStr(i) \o Lower(Suffix(Name(image)))>>

\* An exit that does not wait for the tasks: shutdown(wait=False).
ExecutorIdleNoWait(f) == TRUE

\* ThreadPoolExecutor.__exit__ is shutdown(wait=True): it returns when every
\* submitted task has run.
ExecutorIdle(f) == queue[f] = <<>> /\ running[f] = {}

\* with ThreadPoolExecutor() as executor: (line 73), for a call on folder f
EnterWith(f) ==
    /\ queue' = (f :> <<>>) @@ queue
    /\ running' = (f :> {}) @@ running
    /\ submitted' = (f :> 0) @@ submitted

\* messagebox.askyesno (line 329): yes starts rename_images on the selected
\* folder, no goes on to collect_files.
Confirm ==
    /\ pc = "confirm"
    /\ \E yes \in BOOLEAN :
        /\ answer' = IF yes THEN "yes" ELSE "no"
        /\ IF yes
           THEN /\ pc' = "rename"
                /\ frames' = <<NewFrame(fs, <<>>)>>
                /\ EnterWith(<<>>)
           ELSE /\ pc' = "collect"
                /\ UNCHANGED <<frames, queue, running, submitted>>
    /\ UNCHANGED <<fs, overwritten, structure, blocks, status, result, save_ok>>
    /\ UNCHANGED <<namingVars, layoutVars>>

\* One turn of the loop of line 74 on a directory: the recursive call.
VisitDir ==
    /\ pc = "rename" /\ Top.i = 0
    /\ \E item \in Top.todo :
        /\ IsDir(fs, item)
        /\ frames' = Append(SetTop([Top EXCEPT !.todo = @ \ {item}]), NewFrame(fs, item))
        /\ EnterWith(item)
    /\ UNCHANGED <<fs, pc, answer, overwritten, structure, blocks, status, result, save_ok>>
    /\ UNCHANGED <<namingVars, layoutVars>>

\* One turn of the loop of line 74 on something else: an image file starts
\* the inner loop over the folder's sorted images, anything else is passed.
VisitFile ==
    /\ pc = "rename" /\ Top.i = 0
    /\ \E item \in Top.todo :
        /\ ~IsDir(fs, item)
        /\ LET images == ListImages(fs, Top.folder)
           IN  frames' = SetTop(IF IsFile(fs, item) /\ HasImageSuffix(item)
                                THEN [Top EXCEPT !.todo = @ \ {item}, !.images = images,
                                                 !.i = IF images = <<>> THEN 0 ELSE 1]
                                ELSE [Top EXCEPT !.todo = @ \ {item}])
    /\ UNCHANGED <<fs, pc, answer, queue, running, submitted, overwritten,
                   structure, blocks, status, result, save_ok>>
    /\ UNCHANGED <<namingVars, layoutVars>>

\* One turn of the inner loop (lines 81-84): submit the rename of images[i]
\* to i.<suffix> unless it has that name or the name exists.
CheckAndSubmit ==
    /\ pc = "rename" /\ Top.i > 0
    /\ LET f == Top.folder
           image == Top.images[Top.i]
           new_name == NewName(f, Top.i, image)
           next == IF Top.i = Len(Top.images) THEN 0 ELSE Top.i + 1
       IN  /\ frames' = SetTop([Top EXCEPT !.i = next])
           /\ IF image # new_name /\ ~Exists(fs, new_name)
              THEN /\ queue' = [queue EXCEPT ![f] =
                            Append(@, [src |-> image, dst |-> new_name, n |-> submitted[f]])]
                   /\ submitted' = [submitted EXCEPT ![f] = @ + 1]
              ELSE UNCHANGED <<queue, submitted>>
    /\ UNCHANGED <<fs, pc, answer, running, overwritten, structure, blocks, status,
                   result, save_ok>>
    /\ UNCHANGED <<namingVars, layoutVars>>

\* A worker thread of executor f takes the next task of the work queue.
WorkerTake ==
    /\ \E f \in DOMAIN queue :
        /\ queue[f] # <<>>
        /\ Cardinality(running[f]) < MaxWorkers
        /\ running' = [running EXCEPT ![f] = @ \cup {Head(queue[f])}]
        /\ queue' = [queue EXCEPT ![f] = Tail(@)]
    /\ UNCHANGED <<fs, pc, answer, frames, submitted, overwritten, structure, blocks,
                   status, result, save_ok>>
    /\ UNCHANGED <<namingVars, layoutVars>>

\* rename_image (lines 61-69) in a worker thread: image.rename(new_name),
\* an exception caught and reported.
WorkerRename ==
    /\ \E f \in DOMAIN running : \E t \in running[f] :
        LET r == Rename(fs, t.src, t.dst)
        IN  /\ fs' = r.fs
            /\ overwritten' = overwritten \cup {e.id : e \in r.lost}
            /\ running' = [running EXCEPT ![f] = @ \ {t}]
    /\ UNCHANGED <<pc, answer, frames, queue, submitted, structure, blocks, status,
                   result, save_ok>>
    /\ UNCHANGED <<namingVars, layoutVars>>

\* The end of the with block of a call: the loop is over and the executor
\* has shut down.  The outermost call returns to generate_doc.
ExitWith ==
    /\ pc = "rename" /\ Top.i = 0 /\ Top.todo = {}
    /\ ExecutorIdle(Top.folder)
    /\ frames' = Take(frames, Len(frames) - 1)
    /\ pc' = IF Len(frames) = 1 THEN "collect" ELSE "rename"
    /\ UNCHANGED <<fs, answer, queue, running, submitted, overwritten, structure,
                   blocks, status, result, save_ok>>
    /\ UNCHANGED <<namingVars, layoutVars>>

(***************************************************************************)
(* collect_files and count_total_images.  A node of the structure is       *)
(* [name, files, subfolders]: the folder's name, the paths of its files    *)
(* and the nodes of its subfolders.                                        *)
(***************************************************************************)
\* A walker that keeps every folder.
IncludeNodeAlways(subfolders, files) == TRUE

\* line 99: if subfolders or files
IncludeNode(subfolders, files) == subfolders # <<>> \/ files # <<>>

\* lines 96-98: the entries of the folder with a supported suffix, sorted
CollectImages(fsys, folder) ==
    SortedPaths({e.path : e \in {x \in iterdir(fsys, folder) : HasImageSuffix(x.path)}})

RECURSIVE collect_files(_, _)
RECURSIVE CollectItems(_, _)
\* the loop of line 92 over the sorted items
CollectItems(fsys, items) ==
    IF items = <<>> THEN <<>>
    ELSE LET item == Head(items)
             subfolders == collect_files(fsys, item)
             files == CollectImages(fsys, item)
         IN  (IF IsDir(fsys, item) /\ IncludeNode(subfolders, files)
              THEN <<[name |-> Name(item), files |-> files, subfolders |-> subfolders]>>
              ELSE <<>>) \o CollectItems(fsys, Tail(items))
collect_files(fsys, folder_path) ==
    CollectItems(fsys, SortedPaths({e.path : e \in iterdir(fsys, folder_path)}))

RECURSIVE count_total_images(_)
count_total_images(struct) ==
    IF struct = <<>> THEN 0
    ELSE Len(Head(struct).files) + count_total_images(Head(struct).subfolders)
         + count_total_images(Tail(struct))

(***************************************************************************)
(* create_document.  add_headings yields the events of the traversal in    *)
(* order: the blocks added to the document (heading, image, pagebreak) and *)
(* the status lines.  The field folder of a heading or a page break is the *)
(* path of the folder being emitted; it is not part of the document.       *)
(***************************************************************************)
\* get_image_dimensions and add_picture on the file at a path
Outcome(fsys, file) ==
    IF ~IsFile(fsys, file) THEN "unreadable" ELSE EntryAt(fsys, file).content

\* lines 198-226 for one file
ImageEvents(fsys, file) ==
    LET adding == [type |-> "status", text |-> "Adding image", file |-> file]
        outcome == Outcome(fsys, file)
    IN  IF outcome = "image"
        THEN <<adding, [type |-> "image", file |-> file]>>
        ELSE IF outcome = "broken"
        THEN <<adding, [type |-> "status", text |-> "Error adding image", file |-> file]>>
        ELSE <<adding, [type |-> "status", text |-> "Skipping", file |-> file]>>

\* A loop that an image that cannot be added ends.
RECURSIVE AddImagesAbort(_, _)
AddImagesAbort(fsys, files) ==
    IF files = <<>> THEN <<>>
    ELSE IF Outcome(fsys, Head(files)) = "image"
    THEN ImageEvents(fsys, Head(files)) \o AddImagesAbort(fsys, Tail(files))
    ELSE ImageEvents(fsys, Head(files))

\* the loop of line 197
RECURSIVE AddImages(_, _)
AddImages(fsys, files) ==
    IF files = <<>> THEN <<>>
    ELSE ImageEvents(fsys, Head(files)) \o AddImages(fsys, Tail(files))

\* line 230: a page break before the subfolders of a folder
BreakBeforeSubfolders(lvl, is_first_secondary) == lvl > 1 /\ ~is_first_secondary

RECURSIVE add_headings(_, _, _, _, _)
add_headings(fsys, folder_structure, lvl, is_first_secondary, parent) ==
    IF folder_structure = <<>> THEN <<>>
    ELSE LET node == Head(folder_structure)
             here == Append(parent, node.name)
             heading == [type |-> "heading", text |-> convert_folder_name(node.name, lvl),
                         level |-> lvl, bold |-> (lvl = 1), folder |-> here]
             sub == IF node.subfolders = <<>> THEN <<>>
                    ELSE (IF BreakBeforeSubfolders(lvl, is_first_secondary)
                          THEN <<[type |-> "pagebreak", folder |-> here]>> ELSE <<>>)
                         \o add_headings(fsys, node.subfolders, lvl + 1, lvl = 1, here)
         IN  <<heading>> \o AddImages(fsys, node.files) \o sub
             \o add_headings(fsys, Tail(folder_structure), lvl, is_first_secondary, parent)

IsBlock(e) == e.type # "status"
IsStatus(e) == e.type = "status"

\* collect_files(self.selected_folder) and the test of line 335
CollectFiles ==
    /\ pc = "collect"
    /\ structure' = collect_files(fs, <<>>)
    /\ pc' = IF structure' = <<>> THEN "done" ELSE "create"
    /\ UNCHANGED <<fs, answer, frames, queue, running, submitted, overwritten,
                   blocks, status, result, save_ok>>
    /\ UNCHANGED <<namingVars, layoutVars>>

\* create_document up to the call of doc.save: no image at all returns
\* False, otherwise the document is assembled.
CreateDocument ==
    /\ pc = "create"
    /\ IF count_total_images(structure) = 0
       THEN /\ result' = "False"
            /\ status' = <<[type |-> "status", text |-> "No images", file |-> <<>>]>>
            /\ pc' = "done"
            /\ UNCHANGED blocks
       ELSE LET events == add_headings(fs, structure, 1, FALSE, <<>>)
            IN  /\ blocks' = SelectSeq(events, IsBlock)
                /\ status' = SelectSeq(events, IsStatus)
                /\ pc' = "save"
                /\ UNCHANGED result
    /\ UNCHANGED <<fs, answer, frames, queue, running, submitted, overwritten,
                   structure, save_ok>>
    /\ UNCHANGED <<namingVars, layoutVars>>

\* lines 236-249: doc.save succeeds, or raises IOError and False is returned
SaveDocument ==
    /\ pc = "save"
    /\ \E ok \in BOOLEAN :
        /\ save_ok' = IF ok THEN "ok" ELSE "ioerror"
        /\ result' = IF ok THEN "True" ELSE "False"
        /\ status' = Append(status, [type |-> "status",
                                     text |-> IF ok THEN "Done" ELSE "Failed to save",
                                     file |-> <<>>])
    /\ pc' = "done"
    /\ UNCHANGED <<fs, answer, frames, queue, running, submitted, overwritten,
                   structure, blocks>>
    /\ UNCHANGED <<namingVars, layoutVars>>

(***************************************************************************)
(* The specifications                                                      *)
(***************************************************************************)
NoLayout == [fit |-> "none"]
NamingIdle == folder_name = <<>> /\ level = 0 /\ display_name = <<>>
LayoutIdle == img_width = 0 /\ img_height = 0 /\ layout = NoLayout
GenIdle ==
    /\ fs = {} /\ pc = "off" /\ answer = "none" /\ frames = <<>>
    /\ queue = << >> /\ running = << >> /\ submitted = << >> /\ overwritten = {}
    /\ structure = <<>> /\ blocks = <<>> /\ status = <<>>
    /\ result = "none" /\ save_ok = "none"

File(path, content) == [path |-> path, kind |-> "file", content |-> content, id |-> path]
Dir(path) == [path |-> path, kind |-> "dir", content |-> "dir", id |-> path]

\* generate_doc with a folder selected, at the confirmation dialog: the
\* selected folder holds the folder 1.A and at most MaxImages images of
\* RootNames, and 1.A holds at most MaxImages images of ImageNames.
MaxImages == 2
ImageNames == {<<"a", ".", "j", "p", "g">>, <<"b", ".", "j", "p", "g">>,
               <<"2", ".", "j", "p", "g">>, <<"3", ".", "j", "p", "g">>,
               <<"1", "0", ".", "P", "N", "G">>}
RootNames == {<<"b", ".", "j", "p", "g">>}
SubFolder == <<<<"1", ".", "A">>>>
UpTo(S, n) == {T \in SUBSET S : Cardinality(T) <= n}

GenTrees ==
    {{Dir(SubFolder)} \cup {File(<<n>>, "image") : n \in R}
                      \cup {File(Append(SubFolder, n), "image") : n \in S} :
        R \in UpTo(RootNames, MaxImages), S \in UpTo(ImageNames, MaxImages)}

Init ==
    /\ NamingIdle /\ LayoutIdle
    /\ fs \in GenTrees
    /\ pc = "confirm" /\ answer = "none" /\ frames = <<>>
    /\ queue = << >> /\ running = << >> /\ submitted = << >> /\ overwritten = {}
    /\ structure = <<>> /\ blocks = <<>> /\ status = <<>>
    /\ result = "none" /\ save_ok = "none"

Next ==
    \/ Confirm \/ VisitDir \/ VisitFile \/ CheckAndSubmit
    \/ WorkerTake \/ WorkerRename \/ ExitWith
    \/ CollectFiles \/ CreateDocument \/ SaveDocument

Spec == Init /\ [][Next]_vars

\* generate_doc at line 334, the renaming declined: the selected folder holds
\* at most MaxDirs folders, nested at will, each with one of DocFileSets.
MaxDirs == 4
FolderNames == <<<<"2", ".", "B">>, <<"1", "0", ".", "A">>>>
DocFileSets ==
    { {},
      { [name |-> <<"n", ".", "t", "x", "t">>, kind |-> "file", content |-> "other"],
        [name |-> <<"2", ".", "j", "p", "g">>, kind |-> "file", content |-> "image"],
        [name |-> <<"1", "0", ".", "j", "p", "g">>, kind |-> "file", content |-> "image"] },
      { [name |-> <<"1", ".", "p", "n", "g">>, kind |-> "file", content |-> "unreadable"],
        [name |-> <<"2", ".", "J", "P", "G">>, kind |-> "file", content |-> "image"],
        [name |-> <<"3", ".", "j", "p", "e", "g">>, kind |-> "file", content |-> "broken"],
        [name |-> <<"7", ".", "p", "n", "g">>, kind |-> "dir", content |-> "dir"] } }

Entries(p, F) ==
    {[path |-> Append(p, d.name), kind |-> d.kind, content |-> d.content,
      id |-> Append(p, d.name)] : d \in F}

\* The contents of folder p made of at most n folders named in names / the
\* trees of at most k folders rooted at folder q.
RECURSIVE Forests(_, _, _)
RECURSIVE DirTrees(_, _)
Forests(p, n, names) ==
    IF names = <<>> \/ n = 0 THEN {{}}
    ELSE Forests(p, n, Tail(names))
         \cup UNION {{t \cup rest : t \in DirTrees(Append(p, Head(names)), k),
                                    rest \in Forests(p, n - k, Tail(names))} : k \in 1..n}
DirTrees(q, k) ==
    {{Dir(q)} \cup Entries(q, F) \cup sub :
        F \in DocFileSets, sub \in Forests(q, k - 1, FolderNames)}

DocInit ==
    /\ NamingIdle /\ LayoutIdle
    /\ fs \in Forests(<<>>, MaxDirs, FolderNames)
    /\ pc = "collect" /\ answer = "no" /\ frames = <<>>
    /\ queue = << >> /\ running = << >> /\ submitted = << >> /\ overwritten = {}
    /\ structure = <<>> /\ blocks = <<>> /\ status = <<>>
    /\ result = "none" /\ save_ok = "none"

DocNext == CollectFiles \/ CreateDocument \/ SaveDocument

DocSpec == DocInit /\ [][DocNext]_vars

\* The layout of one image of at most MaxPixels by MaxPixels pixels.
MaxPixels == 50

ComputeLayout ==
    /\ layout = NoLayout
    /\ layout' = ImageLayout(img_width, img_height)
    /\ UNCHANGED <<img_width, img_height, namingVars, genVars>>

LayoutInit ==
    /\ NamingIdle /\ GenIdle
    /\ img_width \in 1..MaxPixels /\ img_height \in 1..MaxPixels
    /\ layout = NoLayout

LayoutNext == ComputeLayout

LayoutSpec == LayoutInit /\ [][LayoutNext]_vars

\* convert_folder_name on the names n.rest, n up to MaxNum, and on names
\* without the prefix, at the levels up to MaxLevel.
MaxNum == 21
MaxLevel == 3
Rests == {<<>>, <<"a">>, <<" ", "a", " ">>, <<"3", ".", "4">>, <<"A", ".", "b">>,
          <<"a", "\n", "b">>, <<"\n", "a">>, <<"a", "\n">>}
NumPrefixes == {ToStr(n) : n \in 0..MaxNum} \cup {<<"0", "0", "7">>, <<"0", "1", "2">>}
OtherNames == {<<"a">>, <<"1">>, <<"1", "a", ".", "b">>, <<" ", "1", ".", "a">>,
               <<".", "a">>, <<"a", ".", "1">>}
FolderNameInputs == {p \o <<".">> \o r : p \in NumPrefixes, r \in Rests} \cup OtherNames

Convert ==
    /\ display_name = <<>>
    /\ display_name' = convert_folder_name(folder_name, level)
    /\ UNCHANGED <<folder_name, level, layoutVars, genVars>>

NamingInit ==
    /\ LayoutIdle /\ GenIdle
    /\ folder_name \in FolderNameInputs /\ level \in 1..MaxLevel
    /\ display_name = <<>>

NamingNext == Convert

NamingSpec == NamingInit /\ [][NamingNext]_vars

(***************************************************************************)
(* The claims                                                              *)
(***************************************************************************)
\* name is <n>.<rest>: a run of digits, a dot, and the rest
IsNumDotRest(name) ==
    \E k \in 1..(Len(name) - 1) : name[k + 1] = "." /\ \A i \in 1..k : IsDigit(name[i])
NumLen(name) ==
    CHOOSE k \in 1..(Len(name) - 1) : name[k + 1] = "." /\ \A i \in 1..k : IsDigit(name[i])
NumeralOf(n) ==
    IF n <= 10 THEN <<chinese_nums[n + 1]>>
    ELSE IF n <= 19 THEN <<"U+5341", chinese_nums[n - 9]>>
    ELSE ToStr(n)

\* C8: convert_folder_name returns, for a name <n>.<rest> at depth 1, the
\* numeral of n (the fixed word for 0..10, ten-X for 11..19, the decimal
\* digits from 20 on), the separator and the trimmed rest; for any other
\* name, or at any other depth, the name unchanged.
C8_ConvertFolderName ==
    display_name # <<>> =>
        IF level = 1 /\ IsNumDotRest(folder_name)
        THEN LET k == NumLen(folder_name)
             IN  display_name = NumeralOf(ToInt(Take(folder_name, k))) \o <<"U+3001">>
                                \o Strip(Drop(folder_name, k + 1))
        ELSE display_name = folder_name

WidthFirstHeight == RMul(available_width_in, Rat(img_height, img_width))
WidthFirstFits == RLeq(RAdd(WidthFirstHeight, title_height_in), available_height_in)

\* C6: the image is fit to the full usable width, and re-fit to the usable
\* height minus the title allowance when the width-first height plus the
\* allowance exceeds the usable height; the display width is at most the
\* usable width and the display height plus the allowance at most the usable
\* height, before and after the scaling.
C6_LayoutFitsPage ==
    layout # NoLayout =>
        /\ IF WidthFirstFits
           THEN layout.fit_width = available_width_in /\ layout.fit_height = WidthFirstHeight
           ELSE layout.fit_height = RSub(available_height_in, title_height_in)
        /\ RLeq(layout.fit_width, available_width_in)
        /\ RLeq(RAdd(layout.fit_height, title_height_in), available_height_in)
        /\ RLeq(layout.image_width, available_width_in)
        /\ RLeq(RAdd(layout.image_height, title_height_in), available_height_in)

\* A tall image, re-fit to the height.
C6_Witness == layout # NoLayout /\ ~WidthFirstFits /\ layout.fit = "height"

\* C10: the inner branch that shrinks further is never taken: whenever the
\* image is re-fit to the height, the width of that fit is strictly less
\* than the usable width.
C10_NeverShrinksFurther ==
    layout # NoLayout =>
        /\ layout.fit # "shrink"
        /\ ~WidthFirstFits =>
              RLess(RMul(RSub(available_height_in, title_height_in),
                         Rat(img_width, img_height)), available_width_in)

\* An image re-fit to the height whose proportions are close to the page's.
C10_Witness ==
    /\ layout # NoLayout /\ layout.fit = "height"
    /\ 100 * img_width >= 69 * img_height

\* The nodes of a structure, at every depth, each with the path of its folder.
RECURSIVE Nodes(_, _)
Nodes(struct, parent) ==
    UNION {{[path |-> Append(parent, struct[i].name), node |-> struct[i]]}
           \cup Nodes(struct[i].subfolders, Append(parent, struct[i].name)) :
           i \in 1..Len(struct)}

Collected == pc \in {"create", "save", "done"}
Assembled == pc \in {"save", "done"} /\ structure # <<>>

\* A qualifying image is an entry whose suffix is a supported extension.
QualifyingBelow(dir) == {e \in fs : IsUnder(e.path, dir) /\ HasImageSuffix(e.path)}

\* C7: every node of the structure collect_files returns, at every depth,
\* has a qualifying image in its own files or in a descendant node; a
\* directory with no qualifying image and no qualifying descendant is nowhere
\* in the structure; count_total_images of a non-empty structure is at least 1.
C7_NodesHoldImages ==
    Collected =>
        /\ \A n \in Nodes(structure, <<>>) :
              \E m \in Nodes(<<n.node>>, Parent(n.path)) : m.node.files # <<>>
        /\ \A d \in fs :
              d.kind = "dir" /\ QualifyingBelow(d.path) = {}
                  => d.path \notin {n.path : n \in Nodes(structure, <<>>)}
        /\ structure # <<>> => count_total_images(structure) >= 1

\* A structure with a node kept for its descendants alone, of a tree with a
\* folder that is left out.
C7_Witness ==
    /\ Collected
    /\ \E n \in Nodes(structure, <<>>) : n.node.files = <<>>
    /\ \E d \in fs : d.kind = "dir" /\ ~HasImageSuffix(d.path)
                     /\ d.path \notin {n.path : n \in Nodes(structure, <<>>)}

StructureFiles == UNION {Range(n.node.files) : n \in Nodes(structure, <<>>)}
Places(seq, P(_)) == {i \in 1..Len(seq) : P(seq[i])}
Failed(e) == e.text \in {"Skipping", "Error adding image"}

\* C5: an image whose dimensions cannot be read or whose insertion raises
\* is skipped with a status line and the generation goes on: every image of
\* the structure is processed, every readable one is in the document, and
\* create_document saves it and returns True; it returns False only for a
\* failed save or when there is no image at all.
C5_BadImageSkipped ==
    /\ Assembled =>
          \A f \in StructureFiles :
              LET Adding(e) == e.text = "Adding image" /\ e.file = f
                  Skipped(e) == Failed(e) /\ e.file = f
                  Picture(b) == b.type = "image" /\ b.file = f
              IN  /\ Cardinality(Places(status, Adding)) = 1
                  /\ IF Outcome(fs, f) = "image"
                     THEN /\ Cardinality(Places(blocks, Picture)) = 1
                          /\ Places(status, Skipped) = {}
                     ELSE /\ Places(blocks, Picture) = {}
                          /\ Cardinality(Places(status, Skipped)) = 1
    /\ pc = "done" /\ structure # <<>> =>
          /\ result = "True" <=> save_ok = "ok"
          /\ result = "False" <=> (save_ok = "ioerror" \/ count_total_images(structure) = 0)

\* The document is saved and True returned although an image was skipped,
\* and a readable image was added after it.
C5_Witness ==
    /\ pc = "done" /\ result = "True"
    /\ \E i, j \in 1..Len(status) :
          /\ i < j /\ Failed(status[i]) /\ status[j].text = "Adding image"
          /\ \E k \in 1..Len(blocks) :
                blocks[k].type = "image" /\ blocks[k].file = status[j].file

FolderOf(b) == IF b.type = "image" THEN Parent(b.file) ELSE b.folder

\* p is q or comes before q in the depth-first pre-order, siblings in natural
\* sort order
RECURSIVE PreLeq(_, _)
PreLeq(p, q) ==
    IF p = <<>> THEN TRUE
    ELSE IF q = <<>> THEN FALSE
    ELSE IF Head(p) = Head(q) THEN PreLeq(Tail(p), Tail(q))
    ELSE NameLess(Head(p), Head(q))

\* C9: the blocks are in depth-first pre-order: the heading of a folder,
\* then one image block per readable image of the folder in natural sort
\* order with no other block between two of them, then the blocks of its
\* subfolders in natural sort order, then the next sibling.
C9_PreOrder ==
    Assembled =>
        /\ \A n \in Nodes(structure, <<>>) :
              LET Heading(b) == b.type = "heading" /\ b.folder = n.path
              IN  Cardinality(Places(blocks, Heading)) = 1
        /\ \A i \in 1..Len(blocks) :
              /\ FolderOf(blocks[i]) \in {n.path : n \in Nodes(structure, <<>>)}
              /\ blocks[i].type = "image" =>
                    blocks[i].file \in StructureFiles /\ Outcome(fs, blocks[i].file) = "image"
        /\ \A f \in StructureFiles :
              Outcome(fs, f) = "image" => \E i \in 1..Len(blocks) :
                  blocks[i].type = "image" /\ blocks[i].file = f
        /\ \A i, j \in 1..Len(blocks) :
              i < j =>
                 /\ PreLeq(FolderOf(blocks[i]), FolderOf(blocks[j]))
                 /\ FolderOf(blocks[i]) = FolderOf(blocks[j]) =>
                       \/ blocks[i].type = "heading" /\ blocks[j].type # "heading"
                       \/ blocks[i].type = "image" /\ blocks[j].type = "pagebreak"
                       \/ /\ blocks[i].type = "image" /\ blocks[j].type = "image"
                          /\ NameLess(Name(blocks[i].file), Name(blocks[j].file))
                          /\ \A k \in i..j : blocks[k].type = "image"

\* Two top-level sections, a sub-section, and two images of one folder in
\* an order that is not the order of their names as strings.
C9_Witness ==
    /\ Assembled
    /\ \E i, j \in 1..Len(blocks) :
          /\ i < j /\ blocks[i].type = "heading" /\ blocks[j].type = "heading"
          /\ blocks[i].level = 1 /\ blocks[j].level = 1
    /\ \E i \in 1..Len(blocks) : blocks[i].type = "heading" /\ blocks[i].level = 2
    /\ \E i \in 1..(Len(blocks) - 1) :
          /\ blocks[i].type = "image" /\ blocks[i + 1].type = "image"
          /\ StrLess(Name(blocks[i + 1].file), Name(blocks[i].file))

\* The heading before place k is a top-level one: the heading at k is the
\* first sub-section emitted under its depth-1 ancestor.
FirstSubSection(k) ==
    LET before == {j \in 1..(k - 1) : blocks[j].type = "heading"}
        last == CHOOSE j \in before : \A m \in before : m <= j
    IN  before # {} /\ blocks[last].level = 1

\* C3: a page break is immediately before the heading of a folder at depth
\* > 1 exactly when the folder is not the first sub-section emitted under
\* its depth-1 ancestor.
C3_PageBreakBeforeSubSection ==
    Assembled =>
        \A k \in 1..Len(blocks) :
            blocks[k].type = "heading" /\ blocks[k].level > 1 =>
                ((k > 1 /\ blocks[k - 1].type = "pagebreak") <=> ~FirstSubSection(k))

\* rename_images has returned to generate_doc.
Renamed == answer = "yes" /\ pc \in {"collect", "create", "save", "done"}

\* The images a folder held when generate_doc started, and holds now.
ImagesAtStart(f) ==
    {id \in {e.id : e \in fs} \cup overwritten : Parent(id) = f /\ HasImageSuffix(id)}
ImagesNow(f) == {e \in fs : Parent(e.path) = f /\ HasImageSuffix(e.path)}

\* C1: rename_images never destroys a file: no rename_image task runs while
\* its target names an existing file, so no file is replaced, and each
\* folder holds as many image files after rename_images as before.
C1_NoFileDestroyed ==
    /\ overwritten = {}
    /\ Renamed => \A f \in DOMAIN queue :
                      Cardinality(ImagesNow(f)) = Cardinality(ImagesAtStart(f))

\* C2: after rename_images, in every folder the file that was i-th in
\* natural sort order of the original names is named i.<its extension>.
C2_Renumbered ==
    Renamed =>
        \A f \in DOMAIN queue :
            LET original == SortedPaths(ImagesAtStart(f))
            IN  \A i \in 1..Len(original) :
                    \E e \in fs : /\ e.id = original[i]
                                  /\ e.path = Append(f, ToStr(i) \o Lower(Suffix(Name(original[i]))))

\* C4: the renaming runs only if the user answered yes, and collect_files
\* starts only after every submitted rename_image task, of the root folder's
\* pool and of every nested folder's, has run: no task is pending or running
\* during collect_files or create_document.
C4_RenamesDoneBeforeCollect ==
    /\ pc \in {"collect", "create", "save", "done"} =>
          \A f \in DOMAIN queue : queue[f] = <<>> /\ running[f] = {}
    /\ answer # "yes" =>
          /\ DOMAIN queue = {} /\ overwritten = {}
          /\ \A e \in fs : e.path = e.id

\* collect_files is about to start after renames in the pool of the selected
\* folder and in the pool of the nested folder.
C4_Witness ==
    /\ pc = "collect" /\ answer = "yes"
    /\ \A f \in {<<>>, SubFolder} : f \in DOMAIN submitted /\ submitted[f] > 0
    /\ \E e \in fs : Parent(e.path) = SubFolder /\ e.path # e.id
    /\ \E e \in fs : Parent(e.path) = <<>> /\ e.path # e.id

=============================================================================
